---- MODULE Spec2Model ----
(***************************************************************************)
(* Dependency-graph engine of the staged dependency inspection tool:       *)
(*   stage3/stage3.py  read_test_graph, bfs_dependencies                   *)
(*   stage4/stage4.py  bfs_dependencies (copy), topological_sort           *)
(*   stage5/stage5.py  read_test_graph (copy), generate_mermaid            *)
(* Package names and text lines are sequences of one-character strings, so *)
(* that substring tests, strip() and split() are computed, not assumed.    *)
(***************************************************************************)
EXTENDS Integers, Sequences, FiniteSets, TLC

VARIABLES
    graph,              \* dict: package name -> list of dependency names
    start_pkg,          \* the start_pkg argument of the consumer
    max_depth,          \* bfs_dependencies: max_depth argument
    filter_substring,   \* bfs_dependencies: filter_substring argument
    fn,                 \* the function that is running
    pc,                 \* position of the running function
    visited,            \* the local set `visited` of the running consumer
    result,             \* the local list `result` (bfs / topological_sort)
    queue,              \* bfs_dependencies: the deque of (node, depth)
    temp_mark,          \* topological_sort: nodes on the active recursion path
    stack,              \* recursion stack of visit(): frames [node, i]
    raised,             \* topological_sort: <<>> or <<node>> of the ValueError in flight
    warning,            \* topological_sort: <<>> or <<node>> printed by the except clause
    lines,              \* generate_mermaid: the local list `lines`
    expanded,           \* history: how often each node's dependency loop was entered
    fileLines,          \* read_test_graph: the lines of the input file
    lineIdx             \* read_test_graph: index of the next line to read

vars == <<graph, start_pkg, max_depth, filter_substring, fn, pc, visited, result,
          queue, temp_mark, stack, raised, warning, lines, expanded,
          fileLines, lineIdx>>

----------------------------------------------------------------------------
(* Bounds of the explored inputs *)

MaxEdges == 3        \* total number of adjacency-list entries of a graph
MaxDepthArg == 2     \* max_depth ranges over -1 .. MaxDepthArg
MaxLines == 2        \* number of lines of a graph file

(* Package names that occur in graphs, and one more that never does *)
Names == {<<"A">>, <<"B">>, <<"C">>}
StartNames == Names \cup {<<"A", "B">>}
Filters == {<<>>, <<"B">>, <<"A", "B">>}

----------------------------------------------------------------------------
(* Sequence helpers *)

Range(s) == {s[i] : i \in 1..Len(s)}

RECURSIVE Reversed(_)
Reversed(s) == IF s = <<>> THEN <<>> ELSE Append(Reversed(Tail(s)), Head(s))

(* Python `sub in s` for strings *)
Contains(sub, s) ==
    \E i \in 0..(Len(s) - Len(sub)) : SubSeq(s, i + 1, i + Len(sub)) = sub

(* variant: the filter compared for equality instead of containment *)
FilteredByEquality(f, node) == f # <<>> /\ f = node
(* stage3.py:68  `filter_substring and filter_substring in node` *)
Filtered(f, node) == f # <<>> /\ Contains(f, node)

(* graph.get(node, []) *)
Neighbors(g, node) == IF node \in DOMAIN g THEN g[node] ELSE <<>>

(* variant: the limit tested with > *)
AtDepthLimitOffByOne(depth, maxd) == depth > maxd
(* stage3.py:72  `depth >= max_depth` *)
AtDepthLimit(depth, maxd) == depth >= maxd

----------------------------------------------------------------------------
(* Input graphs: every dict with at most MaxEdges adjacency entries over    *)
(* Names; a package without dependencies may be a key (empty list) or not.  *)

EdgeLists == UNION {[1..n -> Names \X Names] : n \in 0..MaxEdges}

RECURSIVE DepsIn(_, _)
DepsIn(es, from) ==
    IF es = <<>> THEN <<>>
    ELSE IF Head(es)[1] = from THEN <<Head(es)[2]>> \o DepsIn(Tail(es), from)
    ELSE DepsIn(Tail(es), from)

Sources(es) == {es[i][1] : i \in 1..Len(es)}

Graphs ==
    UNION { { [k \in Sources(es) \cup E |-> DepsIn(es, k)] : E \in SUBSET Names }
            : es \in EdgeLists }

EmptyGraph == [k \in {} |-> <<>>]
NoExpansion == [n \in StartNames |-> 0]

----------------------------------------------------------------------------
(* bfs_dependencies (stage3.py:58-77, repeated in stage4.py:44-61)          *)

(* variant: the queue seeded with depth 1 *)
InitBfsDepthOne ==
    /\ graph \in Graphs
    /\ start_pkg \in StartNames
    /\ max_depth \in -1..MaxDepthArg
    /\ filter_substring \in Filters
    /\ fn = "bfs_dependencies"
    /\ pc = "bfs"
    /\ visited = {}
    /\ result = <<>>
    /\ queue = << <<start_pkg, 1>> >>
    /\ temp_mark = {}
    /\ stack = <<>>
    /\ raised = <<>>
    /\ warning = <<>>
    /\ lines = <<>>
    /\ expanded = NoExpansion
    /\ fileLines = <<>>
    /\ lineIdx = 1

InitBfs ==
    /\ graph \in Graphs
    /\ start_pkg \in StartNames
    /\ max_depth \in -1..MaxDepthArg
    /\ filter_substring \in Filters
    /\ fn = "bfs_dependencies"
    /\ pc = "bfs"
    /\ visited = {}
    /\ result = <<>>
    /\ queue = << <<start_pkg, 0>> >>
    /\ temp_mark = {}
    /\ stack = <<>>
    /\ raised = <<>>
    /\ warning = <<>>
    /\ lines = <<>>
    /\ expanded = NoExpansion
    /\ fileLines = <<>>
    /\ lineIdx = 1

BfsUnchanged ==
    UNCHANGED <<graph, start_pkg, max_depth, filter_substring, fn, temp_mark, stack,
                raised, warning, lines, fileLines, lineIdx>>

(* variant: only the first dependency is enqueued *)
ChildrenFirstOnly(node, depth) ==
    IF Neighbors(graph, node) = <<>> THEN <<>>
    ELSE << <<Neighbors(graph, node)[1], depth + 1>> >>

(* the (dep, depth + 1) entries appended by the for loop, lines 74-75 *)
Children(node, depth) ==
    [i \in 1..Len(Neighbors(graph, node)) |-> <<Neighbors(graph, node)[i], depth + 1>>]

(* lines 65-67: the dequeued node is already visited *)
BfsSkipVisited ==
    /\ pc = "bfs" /\ queue # <<>>
    /\ Head(queue)[1] \in visited
    /\ queue' = Tail(queue)
    /\ UNCHANGED <<pc, visited, result, expanded>>
    /\ BfsUnchanged

(* lines 68-69: the dequeued node matches the filter *)
BfsSkipFiltered ==
    /\ pc = "bfs" /\ queue # <<>>
    /\ Head(queue)[1] \notin visited
    /\ Filtered(filter_substring, Head(queue)[1])
    /\ queue' = Tail(queue)
    /\ UNCHANGED <<pc, visited, result, expanded>>
    /\ BfsUnchanged

(* lines 70-73: the node is recorded, and the depth limit stops its expansion *)
BfsVisitAtLimit ==
    /\ pc = "bfs" /\ queue # <<>>
    /\ Head(queue)[1] \notin visited
    /\ ~Filtered(filter_substring, Head(queue)[1])
    /\ AtDepthLimit(Head(queue)[2], max_depth)
    /\ visited' = visited \cup {Head(queue)[1]}
    /\ result' = Append(result, Head(queue))
    /\ queue' = Tail(queue)
    /\ UNCHANGED <<pc, expanded>>
    /\ BfsUnchanged

(* variant: the expanded node is not marked visited *)
BfsExpandNoMark ==
    /\ pc = "bfs" /\ queue # <<>>
    /\ Head(queue)[1] \notin visited
    /\ ~Filtered(filter_substring, Head(queue)[1])
    /\ ~AtDepthLimit(Head(queue)[2], max_depth)
    /\ result' = Append(result, Head(queue))
    /\ queue' = Tail(queue) \o Children(Head(queue)[1], Head(queue)[2])
    /\ expanded' = [expanded EXCEPT ![Head(queue)[1]] = @ + 1]
    /\ UNCHANGED <<pc, visited>>
    /\ BfsUnchanged

(* variant: the dependencies are put at the front of the deque *)
BfsExpandDepthFirst ==
    /\ pc = "bfs" /\ queue # <<>>
    /\ Head(queue)[1] \notin visited
    /\ ~Filtered(filter_substring, Head(queue)[1])
    /\ ~AtDepthLimit(Head(queue)[2], max_depth)
    /\ visited' = visited \cup {Head(queue)[1]}
    /\ result' = Append(result, Head(queue))
    /\ queue' = Children(Head(queue)[1], Head(queue)[2]) \o Tail(queue)
    /\ expanded' = [expanded EXCEPT ![Head(queue)[1]] = @ + 1]
    /\ UNCHANGED pc
    /\ BfsUnchanged

(* lines 70-75: the node is recorded and its dependencies are enqueued *)
BfsExpand ==
    /\ pc = "bfs" /\ queue # <<>>
    /\ Head(queue)[1] \notin visited
    /\ ~Filtered(filter_substring, Head(queue)[1])
    /\ ~AtDepthLimit(Head(queue)[2], max_depth)
    /\ visited' = visited \cup {Head(queue)[1]}
    /\ result' = Append(result, Head(queue))
    /\ queue' = Tail(queue) \o Children(Head(queue)[1], Head(queue)[2])
    /\ expanded' = [expanded EXCEPT ![Head(queue)[1]] = @ + 1]
    /\ UNCHANGED pc
    /\ BfsUnchanged

(* lines 64, 77: the queue is empty, the result is returned *)
BfsReturn ==
    /\ pc = "bfs" /\ queue = <<>>
    /\ pc' = "done"
    /\ UNCHANGED <<visited, result, queue, expanded>>
    /\ BfsUnchanged

NextBfs ==
    \/ BfsSkipVisited
    \/ BfsSkipFiltered
    \/ BfsVisitAtLimit
    \/ BfsExpand
    \/ BfsReturn

SpecBfs == InitBfs /\ [][NextBfs]_vars
FairSpecBfs == SpecBfs /\ WF_vars(NextBfs)

----------------------------------------------------------------------------
(* topological_sort (stage4.py:64-85); visit() is the nested function of     *)
(* lines 69-78, its recursion kept as an explicit stack of frames            *)
(* [node, i], i the index of the next dependency of the for loop of line 74. *)

InitTopo ==
    /\ graph \in Graphs
    /\ start_pkg \in StartNames
    /\ max_depth = 0
    /\ filter_substring = <<>>
    /\ fn = "topological_sort"
    /\ pc = "topo_start"
    /\ visited = {}
    /\ result = <<>>
    /\ queue = <<>>
    /\ temp_mark = {}
    /\ stack = <<>>
    /\ raised = <<>>
    /\ warning = <<>>
    /\ lines = <<>>
    /\ expanded = NoExpansion
    /\ fileLines = <<>>
    /\ lineIdx = 1

TopoUnchanged ==
    UNCHANGED <<graph, start_pkg, max_depth, filter_substring, fn, queue, lines,
                fileLines, lineIdx>>

Top == stack[Len(stack)]
TopDeps == Neighbors(graph, Top.node)
(* the stack once the running frame has taken dependency number Top.i *)
Advanced == [stack EXCEPT ![Len(stack)].i = @ + 1]
Popped == SubSeq(stack, 1, Len(stack) - 1)

(* line 81: visit(start_pkg); both mark sets are empty, lines 72-73 run *)
TopoStart ==
    /\ pc = "topo_start"
    /\ temp_mark' = temp_mark \cup {start_pkg}
    /\ stack' = <<[node |-> start_pkg, i |-> 1]>>
    /\ expanded' = [expanded EXCEPT ![start_pkg] = @ + 1]
    /\ pc' = "topo_visit"
    /\ UNCHANGED <<visited, result, raised, warning>>
    /\ TopoUnchanged

(* lines 75, 70-71: visit(dep) finds dep on the active path and raises *)
TopoCallCycle ==
    /\ pc = "topo_visit" /\ raised = <<>> /\ stack # <<>>
    /\ Top.i <= Len(TopDeps)
    /\ TopDeps[Top.i] \in temp_mark
    /\ raised' = <<TopDeps[Top.i]>>
    /\ stack' = Advanced
    /\ UNCHANGED <<pc, visited, result, temp_mark, warning, expanded>>
    /\ TopoUnchanged

(* lines 75, 72-73: visit(dep) on a node not yet visited *)
TopoCallNew ==
    /\ pc = "topo_visit" /\ raised = <<>> /\ stack # <<>>
    /\ Top.i <= Len(TopDeps)
    /\ TopDeps[Top.i] \notin temp_mark
    /\ TopDeps[Top.i] \notin visited
    /\ temp_mark' = temp_mark \cup {TopDeps[Top.i]}
    /\ stack' = Append(Advanced, [node |-> TopDeps[Top.i], i |-> 1])
    /\ expanded' = [expanded EXCEPT ![TopDeps[Top.i]] = @ + 1]
    /\ UNCHANGED <<pc, visited, result, raised, warning>>
    /\ TopoUnchanged

(* lines 75, 70, 72: visit(dep) on a permanently visited node returns at once *)
TopoCallVisited ==
    /\ pc = "topo_visit" /\ raised = <<>> /\ stack # <<>>
    /\ Top.i <= Len(TopDeps)
    /\ TopDeps[Top.i] \notin temp_mark
    /\ TopDeps[Top.i] \in visited
    /\ stack' = Advanced
    /\ UNCHANGED <<pc, visited, result, temp_mark, raised, warning, expanded>>
    /\ TopoUnchanged

(* variant: the finished node is not added to the permanent set *)
TopoLeaveNoVisited ==
    /\ pc = "topo_visit" /\ raised = <<>> /\ stack # <<>>
    /\ Top.i > Len(TopDeps)
    /\ temp_mark' = temp_mark \ {Top.node}
    /\ result' = Append(result, Top.node)
    /\ stack' = Popped
    /\ UNCHANGED <<pc, visited, raised, warning, expanded>>
    /\ TopoUnchanged

(* lines 76-78: the for loop is over *)
TopoLeave ==
    /\ pc = "topo_visit" /\ raised = <<>> /\ stack # <<>>
    /\ Top.i > Len(TopDeps)
    /\ temp_mark' = temp_mark \ {Top.node}
    /\ visited' = visited \cup {Top.node}
    /\ result' = Append(result, Top.node)
    /\ stack' = Popped
    /\ UNCHANGED <<pc, raised, warning, expanded>>
    /\ TopoUnchanged

(* variant: an unwinding call still appends its node *)
TopoPropagateAppends ==
    /\ pc = "topo_visit" /\ raised # <<>> /\ stack # <<>>
    /\ result' = Append(result, Top.node)
    /\ stack' = Popped
    /\ UNCHANGED <<pc, visited, temp_mark, raised, warning, expanded>>
    /\ TopoUnchanged

(* variant: the pending call handles the ValueError and its loop goes on *)
TopoPropagateCatches ==
    /\ pc = "topo_visit" /\ raised # <<>> /\ stack # <<>>
    /\ raised' = <<>>
    /\ UNCHANGED <<pc, visited, result, temp_mark, stack, warning, expanded>>
    /\ TopoUnchanged

(* the ValueError leaves one pending visit() call; no handler inside visit *)
TopoPropagate ==
    /\ pc = "topo_visit" /\ raised # <<>> /\ stack # <<>>
    /\ stack' = Popped
    /\ UNCHANGED <<pc, visited, result, temp_mark, raised, warning, expanded>>
    /\ TopoUnchanged

(* lines 82-83: except ValueError around visit(start_pkg), the warning is printed *)
TopoCatch ==
    /\ pc = "topo_visit" /\ raised # <<>> /\ stack = <<>>
    /\ warning' = raised
    /\ raised' = <<>>
    /\ pc' = "topo_reverse"
    /\ UNCHANGED <<visited, result, temp_mark, stack, expanded>>
    /\ TopoUnchanged

(* line 81 returns normally *)
TopoVisited ==
    /\ pc = "topo_visit" /\ raised = <<>> /\ stack = <<>>
    /\ pc' = "topo_reverse"
    /\ UNCHANGED <<visited, result, temp_mark, stack, raised, warning, expanded>>
    /\ TopoUnchanged

(* lines 84-85: result.reverse(); return result *)
TopoReturn ==
    /\ pc = "topo_reverse"
    /\ result' = Reversed(result)
    /\ pc' = "done"
    /\ UNCHANGED <<visited, temp_mark, stack, raised, warning, expanded>>
    /\ TopoUnchanged

NextTopo ==
    \/ TopoStart
    \/ TopoCallCycle
    \/ TopoCallNew
    \/ TopoCallVisited
    \/ TopoLeave
    \/ TopoPropagate
    \/ TopoCatch
    \/ TopoVisited
    \/ TopoReturn

SpecTopo == InitTopo /\ [][NextTopo]_vars
FairSpecTopo == SpecTopo /\ WF_vars(NextTopo)

----------------------------------------------------------------------------
(* generate_mermaid (stage5.py:38-51); visit() is the nested function of     *)
(* lines 42-48, with the same stack of frames.                               *)

Header == <<"g", "r", "a", "p", "h", " ", "T", "D">>
Indent == <<" ", " ", " ", " ">>
Arrow == <<" ", "-", "-", ">", " ">>

(* line 47: f"    {node} --> {dep}" *)
EdgeLine(node, dep) == Indent \o node \o Arrow \o dep

(* line 51: "\n".join(lines) *)
RECURSIVE Join(_)
Join(ls) ==
    IF ls = <<>> THEN <<>>
    ELSE IF Len(ls) = 1 THEN ls[1]
    ELSE ls[1] \o <<"\n">> \o Join(Tail(ls))

InitMermaid ==
    /\ graph \in Graphs
    /\ start_pkg \in StartNames
    /\ max_depth = 0
    /\ filter_substring = <<>>
    /\ fn = "generate_mermaid"
    /\ pc = "mm_start"
    /\ visited = {}
    /\ result = <<>>
    /\ queue = <<>>
    /\ temp_mark = {}
    /\ stack = <<>>
    /\ raised = <<>>
    /\ warning = <<>>
    /\ lines = <<Header>>
    /\ expanded = NoExpansion
    /\ fileLines = <<>>
    /\ lineIdx = 1

MermaidUnchanged ==
    UNCHANGED <<graph, start_pkg, max_depth, filter_substring, fn, queue, temp_mark,
                raised, warning, fileLines, lineIdx>>

(* line 50: visit(start_pkg); lines 43-45 on the empty visited set *)
MermaidStart ==
    /\ pc = "mm_start"
    /\ visited' = visited \cup {start_pkg}
    /\ stack' = <<[node |-> start_pkg, i |-> 1]>>
    /\ expanded' = [expanded EXCEPT ![start_pkg] = @ + 1]
    /\ pc' = "mm_visit"
    /\ UNCHANGED <<result, lines>>
    /\ MermaidUnchanged

(* lines 46-48, 43-45: the edge line is appended and visit(dep) enters dep *)
MermaidEdgeNew ==
    /\ pc = "mm_visit" /\ stack # <<>>
    /\ Top.i <= Len(TopDeps)
    /\ TopDeps[Top.i] \notin visited
    /\ lines' = Append(lines, EdgeLine(Top.node, TopDeps[Top.i]))
    /\ visited' = visited \cup {TopDeps[Top.i]}
    /\ stack' = Append(Advanced, [node |-> TopDeps[Top.i], i |-> 1])
    /\ expanded' = [expanded EXCEPT ![TopDeps[Top.i]] = @ + 1]
    /\ UNCHANGED <<pc, result>>
    /\ MermaidUnchanged

(* variant: no edge line for a dependency that is already visited *)
MermaidEdgeSeenSilent ==
    /\ pc = "mm_visit" /\ stack # <<>>
    /\ Top.i <= Len(TopDeps)
    /\ TopDeps[Top.i] \in visited
    /\ stack' = Advanced
    /\ UNCHANGED <<pc, result, visited, lines, expanded>>
    /\ MermaidUnchanged

(* lines 46-48, 43-44: the edge line is appended and visit(dep) returns at once *)
MermaidEdgeSeen ==
    /\ pc = "mm_visit" /\ stack # <<>>
    /\ Top.i <= Len(TopDeps)
    /\ TopDeps[Top.i] \in visited
    /\ lines' = Append(lines, EdgeLine(Top.node, TopDeps[Top.i]))
    /\ stack' = Advanced
    /\ UNCHANGED <<pc, result, visited, expanded>>
    /\ MermaidUnchanged

(* line 46: the for loop is over, visit() returns *)
MermaidLeave ==
    /\ pc = "mm_visit" /\ stack # <<>>
    /\ Top.i > Len(TopDeps)
    /\ stack' = Popped
    /\ UNCHANGED <<pc, result, visited, lines, expanded>>
    /\ MermaidUnchanged

(* line 51: the joined text is returned *)
MermaidReturn ==
    /\ pc = "mm_visit" /\ stack = <<>>
    /\ result' = Join(lines)
    /\ pc' = "done"
    /\ UNCHANGED <<visited, stack, lines, expanded>>
    /\ MermaidUnchanged

NextMermaid ==
    \/ MermaidStart
    \/ MermaidEdgeNew
    \/ MermaidEdgeSeen
    \/ MermaidLeave
    \/ MermaidReturn

SpecMermaid == InitMermaid /\ [][NextMermaid]_vars
FairSpecMermaid == SpecMermaid /\ WF_vars(NextMermaid)

----------------------------------------------------------------------------
(* read_test_graph (stage3.py:36-53, repeated in stage4.py:28-41 and        *)
(* stage5.py:24-35)                                                         *)

IsSpace(c) == c \in {" ", "\n", "\t", "\r"}

RECURSIVE LStrip(_)
LStrip(s) == IF s # <<>> /\ IsSpace(Head(s)) THEN LStrip(Tail(s)) ELSE s

RECURSIVE RStrip(_)
RStrip(s) ==
    IF s # <<>> /\ IsSpace(s[Len(s)]) THEN RStrip(SubSeq(s, 1, Len(s) - 1)) ELSE s

(* str.strip() *)
Strip(s) == RStrip(LStrip(s))

(* index of the first occurrence of character c in s, 0 when there is none *)
IndexOf(s, c) ==
    IF \E i \in 1..Len(s) : s[i] = c
    THEN CHOOSE i \in 1..Len(s) : s[i] = c /\ \A j \in 1..(i - 1) : s[j] # c
    ELSE 0

(* str.split(c) *)
RECURSIVE Split(_, _)
Split(s, c) ==
    IF IndexOf(s, c) = 0 THEN <<s>>
    ELSE <<SubSeq(s, 1, IndexOf(s, c) - 1)>>
         \o Split(SubSeq(s, IndexOf(s, c) + 1, Len(s)), c)

(* line.split(":", 1) of a line that holds a colon *)
PkgPart(line) == SubSeq(line, 1, IndexOf(line, ":") - 1)
DepsPart(line) == SubSeq(line, IndexOf(line, ":") + 1, Len(line))

NonEmpty(s) == s # <<>>

(* stage3.py:51  [d.strip() for d in deps.split(",") if d.strip()] *)
DepList(deps) ==
    SelectSeq([i \in 1..Len(Split(deps, ",")) |-> Strip(Split(deps, ",")[i])], NonEmpty)

(* stage3.py:45-48: blank lines, comments and lines without a colon are skipped *)
Skipped(line) ==
    IF line = <<>> THEN TRUE
    ELSE IF Head(line) = "#" THEN TRUE
    ELSE IndexOf(line, ":") = 0

(* stage3.py:52  graph[pkg] = dep_list *)
Store(g, pkg, dep_list) ==
    [k \in DOMAIN g \cup {pkg} |-> IF k = pkg THEN dep_list ELSE g[k]]

(* The lines a graph file is made of *)
FileLineSet ==
    { <<"A", ":", " ", "B", "\n">>,
      <<"A", ":", "C", ",", "B", "\n">>,
      <<" ", "B", " ", ":", "A", ",", ",", " ", "A", "B", "\n">>,
      <<"B", ":", "\n">>,
      <<"#", " ", "A", ":", "C", "\n">>,
      <<"\n">>,
      <<"A", "B", "\n">>,
      <<"C", ":", "A">> }

Files == UNION {[1..n -> FileLineSet] : n \in 0..MaxLines}

InitLoad ==
    /\ fileLines \in Files
    /\ lineIdx = 1
    /\ graph = EmptyGraph
    /\ start_pkg = <<"A">>
    /\ max_depth = 0
    /\ filter_substring = <<>>
    /\ fn = "read_test_graph"
    /\ pc = "load"
    /\ visited = {}
    /\ result = <<>>
    /\ queue = <<>>
    /\ temp_mark = {}
    /\ stack = <<>>
    /\ raised = <<>>
    /\ warning = <<>>
    /\ lines = <<>>
    /\ expanded = NoExpansion

LoadUnchanged ==
    UNCHANGED <<fileLines, start_pkg, max_depth, filter_substring, fn, visited, result,
                queue, temp_mark, stack, raised, warning, lines, expanded>>

(* the line of this iteration after line.strip(), stage3.py:44 *)
CurrentLine == Strip(fileLines[lineIdx])

(* stage3.py:43-48: the line is ignored *)
LoadSkip ==
    /\ pc = "load" /\ lineIdx <= Len(fileLines)
    /\ Skipped(CurrentLine)
    /\ lineIdx' = lineIdx + 1
    /\ UNCHANGED <<graph, pc>>
    /\ LoadUnchanged

(* stage3.py:49-52: the line is split and stored *)
LoadStore ==
    /\ pc = "load" /\ lineIdx <= Len(fileLines)
    /\ ~Skipped(CurrentLine)
    /\ graph' = Store(graph, Strip(PkgPart(CurrentLine)), DepList(DepsPart(CurrentLine)))
    /\ lineIdx' = lineIdx + 1
    /\ UNCHANGED pc
    /\ LoadUnchanged

(* stage3.py:53: return graph *)
LoadReturn ==
    /\ pc = "load" /\ lineIdx > Len(fileLines)
    /\ pc' = "done"
    /\ UNCHANGED <<graph, lineIdx>>
    /\ LoadUnchanged

NextLoad ==
    \/ LoadSkip
    \/ LoadStore
    \/ LoadReturn

SpecLoad == InitLoad /\ [][NextLoad]_vars

----------------------------------------------------------------------------
(* The two walks that take any graph: bfs_dependencies and generate_mermaid *)

InitWalks == InitBfs \/ InitMermaid
NextWalks == NextBfs \/ NextMermaid
SpecWalks == InitWalks /\ [][NextWalks]_vars
FairSpecWalks == SpecWalks /\ WF_vars(NextWalks)

----------------------------------------------------------------------------
(* Graph notions the properties are stated in, read off the dict directly *)

EdgePairs(g) == UNION { {<<a, g[a][i]>> : i \in 1..Len(g[a])} : a \in DOMAIN g }

SuccOf(g, S) == {e[2] : e \in {d \in EdgePairs(g) : d[1] \in S}}

RECURSIVE Closure(_, _)
Closure(g, S) ==
    IF SuccOf(g, S) \subseteq S THEN S ELSE Closure(g, S \cup SuccOf(g, S))

(* the nodes reachable from s by a directed path, s included *)
Reach(g, s) == Closure(g, {s})

(* a directed cycle (a self-loop included) can be reached from s *)
CycleReachable(g, s) == \E n \in Reach(g, s) : n \in Closure(g, SuccOf(g, {n}))
HasCycle(g) == \E n \in DOMAIN g : n \in Closure(g, SuccOf(g, {n}))

(* the filter is set and the name contains it *)
Matches(f, n) == f # <<>> /\ Contains(f, n)

(* the nodes reachable from the set S in at most k more hops over nodes the *)
(* filter lets through                                                      *)
RECURSIVE Within(_, _, _, _)
Within(g, f, S, k) ==
    IF k <= 0 THEN S
    ELSE Within(g, f, S \cup {d \in SuccOf(g, S) : ~Matches(f, d)}, k - 1)

ReachWithin(g, s, f, k) ==
    IF k < 0 \/ Matches(f, s) THEN {} ELSE Within(g, f, {s}, k)

Position(s, x) == CHOOSE i \in 1..Len(s) : s[i] = x
Occurrences(s, x) == Cardinality({i \in 1..Len(s) : s[i] = x})
NoDuplicates(s) == \A i, j \in 1..Len(s) : s[i] = s[j] => i = j

A == <<"A">>
B == <<"B">>
C == <<"C">>
AB == <<"A", "B">>

(* {A: [B, C], B: [C], C: []} *)
ExampleDiamond == [k \in {A, B, C} |-> IF k = A THEN <<B, C>> ELSE IF k = B THEN <<C>> ELSE <<>>]
(* {A: [B], B: [A]} *)
ExampleTwoCycle == [k \in {A, B} |-> IF k = A THEN <<B>> ELSE <<A>>]
(* {A: [B, B]} *)
ExampleDuplicate == [k \in {A} |-> <<B, B>>]

TopoDone == fn = "topological_sort" /\ pc = "done"
BfsDone == fn = "bfs_dependencies" /\ pc = "done"
MermaidDone == fn = "generate_mermaid" /\ pc = "done"
LoadDone == fn = "read_test_graph" /\ pc = "done"

----------------------------------------------------------------------------
(* C1: when no cycle is reachable from start, the sequence topological_sort *)
(* returns is dependency-first: for every edge a -> b with a reachable from *)
(* start, b stands before a; {A:[B,C], B:[C], C:[]} from A gives [C, B, A]. *)
C1_DependencyFirst ==
    (TopoDone /\ ~CycleReachable(graph, start_pkg)) =>
        /\ \A e \in EdgePairs(graph) :
              e[1] \in Reach(graph, start_pkg) =>
                  /\ e[1] \in Range(result) /\ e[2] \in Range(result)
                  /\ Position(result, e[2]) < Position(result, e[1])
        /\ (graph = ExampleDiamond /\ start_pkg = A) => result = <<C, B, A>>

(* C2: when a cycle is reachable from start, topological_sort reports it;   *)
(* once the cycle is detected the sequence holds no node of the active      *)
(* recursion path (the temporary marks, which are exactly the nodes of the  *)
(* pending calls at detection) and holds every node that had completed;     *)
(* {A:[B], B:[A]} from A reports the cycle at A and returns [].             *)
C2_CyclePartialResult ==
    /\ (TopoDone /\ CycleReachable(graph, start_pkg)) => warning # <<>>
    /\ (fn = "topological_sort" /\ pc = "topo_visit" /\ raised = <<>>) =>
          temp_mark = {stack[i].node : i \in 1..Len(stack)}
    /\ (fn = "topological_sort" /\ (raised # <<>> \/ warning # <<>>)) =>
          /\ temp_mark # {}
          /\ Range(raised \o warning) \subseteq temp_mark
          /\ Range(result) \cap temp_mark = {}
          /\ visited \subseteq Range(result)
    /\ (TopoDone /\ graph = ExampleTwoCycle /\ start_pkg = A) =>
          warning = <<A>> /\ result = <<>>

(* a cycle was reported after one subtree had completed *)
C2_Witness ==
    TopoDone /\ warning # <<>> /\ result # <<>> /\ Cardinality(temp_mark) >= 2

(* C10: when no cycle is reachable from start, topological_sort returns     *)
(* exactly the nodes reachable from start, each once, and reports no cycle, *)
(* whatever the rest of the graph holds (unreachable nodes and cycles).     *)
C10_ExactlyReachable ==
    (TopoDone /\ ~CycleReachable(graph, start_pkg)) =>
        /\ warning = <<>>
        /\ Range(result) = Reach(graph, start_pkg)
        /\ NoDuplicates(result)

(* an acyclic part with a shared dependency, beside an unreachable cycle *)
C10_Witness ==
    /\ TopoDone /\ ~CycleReachable(graph, start_pkg) /\ HasCycle(graph)
    /\ Len(result) >= 2
    /\ DOMAIN graph \ Reach(graph, start_pkg) # {}

----------------------------------------------------------------------------
ResultNodes == {result[i][1] : i \in 1..Len(result)}

(* C3: bfs_dependencies returns only nodes reachable from start, every node *)
(* reachable within max_depth hops along a path of nodes the filter lets    *)
(* through (start included) is in the result, and no node is there twice.   *)
C3_ReachableOnce ==
    fn = "bfs_dependencies" =>
        /\ ResultNodes \subseteq Reach(graph, start_pkg)
        /\ NoDuplicates([i \in 1..Len(result) |-> result[i][1]])
        /\ pc = "done" =>
              ReachWithin(graph, start_pkg, filter_substring, max_depth) \subseteq ResultNodes

(* every node is reachable, one of them only through a filtered node *)
C3_Witness ==
    /\ BfsDone /\ filter_substring = B /\ start_pkg = A
    /\ Reach(graph, start_pkg) = Names
    /\ result = << <<A, 0>>, <<C, 1>> >>

(* C4: with a non-empty filter f no node of the result contains f, a node   *)
(* containing f is never marked visited and its dependency loop is never    *)
(* entered; {A:[B,C], B:[C], C:[]} from A with filter "B" gives             *)
(* [(A,0), (C,1)].                                                          *)
C4_FilterExcludes ==
    (fn = "bfs_dependencies" /\ filter_substring # <<>>) =>
        /\ \A i \in 1..Len(result) : ~Contains(filter_substring, result[i][1])
        /\ \A n \in visited : ~Contains(filter_substring, n)
        /\ \A n \in StartNames : Contains(filter_substring, n) => expanded[n] = 0
        /\ (pc = "done" /\ graph = ExampleDiamond /\ start_pkg = A
                /\ filter_substring = B /\ max_depth >= 1) =>
              result = << <<A, 0>>, <<C, 1>> >>

(* a reachable node with dependencies was cut off by the filter *)
C4_Witness ==
    /\ BfsDone /\ filter_substring = B /\ start_pkg = A /\ max_depth = MaxDepthArg
    /\ <<A, B>> \in EdgePairs(graph) /\ <<B, C>> \in EdgePairs(graph)
    /\ result = << <<A, 0>> >>

(* C5 as stated: every result entry has 0 <= depth <= max_depth, nothing is *)
(* enqueued from a node at depth max_depth, and with max_depth = 0 the      *)
(* result is at most the start node.                                        *)
C5_DepthWithinLimit ==
    fn = "bfs_dependencies" =>
        /\ \A i \in 1..Len(result) : 0 <= result[i][2] /\ result[i][2] <= max_depth
        /\ \A i \in 1..Len(queue) : queue[i][2] <= max_depth \/ queue[i][2] = 0
        /\ max_depth = 0 => result \in {<<>>, << <<start_pkg, 0>> >>}

(* C5 amended: every result entry has 0 <= depth, and depth <= max_depth    *)
(* when max_depth >= 0; a negative max_depth acts as 0. Nothing is enqueued *)
(* from a node at depth >= max_depth, so with max_depth <= 0 the result is  *)
(* at most the start node at depth 0.                                       *)
C5_DepthWithinLimitAmended ==
    fn = "bfs_dependencies" =>
        /\ \A i \in 1..Len(result) :
              /\ 0 <= result[i][2]
              /\ max_depth >= 0 => result[i][2] <= max_depth
              /\ max_depth < 0 => result[i][2] = 0
        /\ \A i \in 1..Len(queue) : queue[i][2] <= max_depth \/ queue[i][2] = 0
        /\ max_depth <= 0 => result \in {<<>>, << <<start_pkg, 0>> >>}
        /\ \A n \in StartNames :
              expanded[n] > 0 =>
                  \E i \in 1..Len(result) : result[i][1] = n /\ result[i][2] < max_depth

(* a node recorded at the limit whose dependency was left out *)
C5_Witness ==
    /\ BfsDone /\ max_depth = 1 /\ filter_substring = <<>>
    /\ Len(result) = 2 /\ result[2][2] = 1
    /\ Neighbors(graph, result[2][1]) # <<>>
    /\ Reach(graph, start_pkg) = Names

----------------------------------------------------------------------------
(* the text of the edge line 'a --> b', written out *)
ArrowLine(a, b) == <<" ", " ", " ", " ">> \o a \o <<" ", "-", "-", ">", " ">> \o b
EdgeLinesEmitted == Tail(lines)
NewlineCount(text) == Cardinality({i \in 1..Len(text) : text[i] = "\n"})

(* C6: generate_mermaid emits the header line and then one edge line per    *)
(* adjacency-list entry of every node reachable from root, back-edges,      *)
(* edges to visited nodes and duplicated entries included; each reachable   *)
(* node's dependency loop runs exactly once; {A:[B,B]} from A gives two     *)
(* 'A --> B' lines.                                                         *)
C6_OneLinePerEntry ==
    MermaidDone =>
        /\ lines[1] = <<"g", "r", "a", "p", "h", " ", "T", "D">>
        /\ \A a, b \in StartNames :
              Occurrences(EdgeLinesEmitted, ArrowLine(a, b)) =
                  IF a \in Reach(graph, start_pkg)
                  THEN Occurrences(Neighbors(graph, a), b)
                  ELSE 0
        /\ \A i \in 1..Len(EdgeLinesEmitted) :
              \E a, b \in StartNames : EdgeLinesEmitted[i] = ArrowLine(a, b)
        /\ NewlineCount(result) = Len(EdgeLinesEmitted)
        /\ \A n \in StartNames :
              expanded[n] = IF n \in Reach(graph, start_pkg) THEN 1 ELSE 0
        /\ (graph = ExampleDuplicate /\ start_pkg = A) =>
              lines = <<lines[1], ArrowLine(A, B), ArrowLine(A, B)>>

(* a cycle with a duplicated entry: a back-edge and an edge to a visited node *)
C6_Witness ==
    /\ MermaidDone /\ CycleReachable(graph, start_pkg)
    /\ \E a, b \in Names : Occurrences(EdgeLinesEmitted, ArrowLine(a, b)) = 2
    /\ Len(lines) = 1 + MaxEdges

(* C7: bfs_dependencies and generate_mermaid return on every graph, cyclic  *)
(* ones and self-loops included, for every max_depth and filter, and no     *)
(* node's dependency loop is entered more than once.                        *)
C7_Terminates ==
    /\ <>(pc = "done")
    /\ [](\A n \in StartNames : expanded[n] <= 1)

(* a walk over a graph with a self-loop and a longer cycle has returned *)
C7_Witness ==
    /\ pc = "done" /\ fn = "bfs_dependencies" /\ max_depth = MaxDepthArg
    /\ filter_substring = <<>>
    /\ \E n \in Names : <<n, n>> \in EdgePairs(graph)
    /\ \E n, m \in Names : n # m /\ <<n, m>> \in EdgePairs(graph) /\ <<m, n>> \in EdgePairs(graph)
    /\ Cardinality(ResultNodes) >= 2

(* the start node is no key of the graph and no edge points to it *)
Isolated(g, s) == s \notin DOMAIN g /\ \A e \in EdgePairs(g) : e[2] # s

(* C9 as stated: from a start node that is no key and is referenced by no   *)
(* edge, bfs_dependencies returns exactly [(start, 0)] and generate_mermaid *)
(* the header line alone, for every max_depth and filter.                   *)
C9_IsolatedStart ==
    (pc = "done" /\ Isolated(graph, start_pkg)) =>
        /\ fn = "bfs_dependencies" => result = << <<start_pkg, 0>> >>
        /\ fn = "generate_mermaid" =>
              result = <<"g", "r", "a", "p", "h", " ", "T", "D">>

(* C9 amended: bfs_dependencies returns exactly [(start, 0)] when the       *)
(* filter is empty or is no substring of start, and the empty list when     *)
(* the non-empty filter is a substring of start; generate_mermaid returns   *)
(* the header line alone.                                                   *)
C9_IsolatedStartAmended ==
    (pc = "done" /\ Isolated(graph, start_pkg)) =>
        /\ (fn = "bfs_dependencies" /\ ~Matches(filter_substring, start_pkg)) =>
              result = << <<start_pkg, 0>> >>
        /\ (fn = "bfs_dependencies" /\ Matches(filter_substring, start_pkg)) =>
              result = <<>>
        /\ fn = "generate_mermaid" =>
              result = <<"g", "r", "a", "p", "h", " ", "T", "D">>

(* an isolated start beside a graph with edges, under a filter that is set *)
C9_Witness ==
    /\ BfsDone /\ Isolated(graph, start_pkg) /\ EdgePairs(graph) # {}
    /\ filter_substring = B /\ start_pkg = C /\ max_depth = MaxDepthArg
    /\ result = << <<C, 0>> >>

----------------------------------------------------------------------------
(* AddEdge(from, to) of the Graph Store contract: `to` is appended to the   *)
(* dependency sequence of `from`, whose key is created when absent.         *)
AddEdge(g, from, to) ==
    [k \in DOMAIN g \cup {from} |->
        IF k = from
        THEN (IF from \in DOMAIN g THEN g[from] ELSE <<>>) \o <<to>>
        ELSE g[k]]

RECURSIVE AddEdges(_, _, _)
AddEdges(g, from, tos) ==
    IF tos = <<>> THEN g ELSE AddEdges(AddEdge(g, from, Head(tos)), from, Tail(tos))

(* the store after AddEdge for every (from, to) pair of the first n lines *)
RECURSIVE StoreByAddEdge(_, _)
StoreByAddEdge(file, n) ==
    IF n = 0 THEN EmptyGraph
    ELSE IF Skipped(Strip(file[n])) THEN StoreByAddEdge(file, n - 1)
    ELSE AddEdges(StoreByAddEdge(file, n - 1),
                  Strip(PkgPart(Strip(file[n]))),
                  DepList(DepsPart(Strip(file[n]))))

DepsOf(g, k) == IF k \in DOMAIN g THEN g[k] ELSE <<>>

(* C8: reading the file is repeated AddEdge: the stored dependency sequence *)
(* of a package is the concatenation, in order, of the dependencies of all  *)
(* the lines that have it as their key.                                     *)
C8_LinesConcatenate ==
    LoadDone =>
        \A k \in DOMAIN graph \cup DOMAIN StoreByAddEdge(fileLines, Len(fileLines)) :
            DepsOf(graph, k) = DepsOf(StoreByAddEdge(fileLines, Len(fileLines)), k)

----------------------------------------------------------------------------
(* C11: the first cycle aborts topological_sort. While the ValueError is in *)
(* flight nothing is visited, marked or appended: each step only leaves one *)
(* pending visit() call, and the error is handled only once no call is      *)
(* pending, by the except clause around visit(start_pkg), which prints it.  *)
(* After that the list is only reversed. The function always returns, with  *)
(* no error left in flight.                                                 *)
C11_FirstCycleAborts ==
    /\ [][ (fn = "topological_sort" /\ raised # <<>>) =>
              /\ visited' = visited /\ temp_mark' = temp_mark
              /\ result' = result /\ expanded' = expanded
              /\ stack # <<>> => (raised' = raised /\ Len(stack') = Len(stack) - 1
                                     /\ warning' = warning /\ pc' = pc)
              /\ stack = <<>> => (raised' = <<>> /\ warning' = raised) ]_vars
    /\ [][ (fn = "topological_sort" /\ warning # <<>>) =>
              /\ visited' = visited /\ temp_mark' = temp_mark
              /\ expanded' = expanded /\ stack' = <<>> /\ raised' = <<>>
              /\ warning' = warning
              /\ Len(result') = Len(result) /\ Range(result') = Range(result) ]_vars
    /\ [](pc = "done" => raised = <<>>)
    /\ <>(pc = "done")

(* the error has passed two pending calls, one of which had a dependency    *)
(* left that is never visited                                               *)
C11_Witness ==
    /\ TopoDone /\ warning # <<>> /\ Cardinality(temp_mark) >= 2
    /\ Reach(graph, start_pkg) \ (visited \cup temp_mark) # {}

----------------------------------------------------------------------------
(* bfs_dependencies on graphs with a detour: five names, so that a route    *)
(* through a filtered node (A -> B -> D) can be shorter than the route the  *)
(* filter leaves open (A -> C -> E -> D).                                   *)

MaxDetourEdges == 5  \* total number of adjacency-list entries of a detour graph

D == <<"D">>
E == <<"E">>
DetourNames == {A, B, C, D, E}
DetourPairs == {<<A, B>>, <<A, C>>, <<B, D>>, <<C, E>>, <<E, D>>, <<D, A>>}
DetourEdgeLists == UNION {[1..n -> DetourPairs] : n \in 0..MaxDetourEdges}
DetourGraphs == {[k \in Sources(es) |-> DepsIn(es, k)] : es \in DetourEdgeLists}

InitBfsDetour ==
    /\ graph \in DetourGraphs
    /\ start_pkg \in {A, C}
    /\ max_depth \in -1..(MaxDepthArg + 1)
    /\ filter_substring \in Filters
    /\ fn = "bfs_dependencies"
    /\ pc = "bfs"
    /\ visited = {}
    /\ result = <<>>
    /\ queue = << <<start_pkg, 0>> >>
    /\ temp_mark = {}
    /\ stack = <<>>
    /\ raised = <<>>
    /\ warning = <<>>
    /\ lines = <<>>
    /\ expanded = [n \in DetourNames |-> 0]
    /\ fileLines = <<>>
    /\ lineIdx = 1

InitBfsAll == InitBfs \/ InitBfsDetour
SpecBfsAll == InitBfsAll /\ [][NextBfs]_vars

(* the length of the shortest path from s to n over nodes the filter lets   *)
(* through; n is such a node                                                *)
OpenDistance(g, s, f, n) ==
    CHOOSE k \in 0..Cardinality(Closure(g, {s})) :
        /\ n \in ReachWithin(g, s, f, k)
        /\ \A j \in 0..(k - 1) : n \notin ReachWithin(g, s, f, j)

(* C12: the depth of every result entry is the length of the shortest path *)
(* from start to the node over nodes that do not match the filter (with an  *)
(* empty filter: the shortest-path distance), and the depths of the result  *)
(* never decrease.                                                          *)
C12_DepthIsShortestOpenPath ==
    fn = "bfs_dependencies" =>
        /\ \A i \in 1..Len(result) :
              /\ result[i][1] \in ReachWithin(graph, start_pkg, filter_substring, result[i][2])
              /\ result[i][2] =
                    OpenDistance(graph, start_pkg, filter_substring, result[i][1])
        /\ \A i, j \in 1..Len(result) : i < j => result[i][2] <= result[j][2]

(* D lies two hops away through the filtered B and three hops away through *)
(* C and E                                                                  *)
C12_Witness ==
    /\ BfsDone /\ filter_substring = B /\ start_pkg = A
    /\ {<<A, B>>, <<B, D>>, <<A, C>>, <<C, E>>, <<E, D>>} \subseteq EdgePairs(graph)
    /\ OpenDistance(graph, A, <<>>, D) = 2
    /\ result = << <<A, 0>>, <<C, 1>>, <<E, 2>>, <<D, 3>> >>

====
